---- MODULE Spec2Model ----
(***************************************************************************)
(* Model of agent/structure.py: the WordPart / Combination / WordOutput    *)
(* schema, deconstruct_word (prompt construction, one agent.run, the       *)
(* isinstance check) and the command-line driver under __main__.           *)
(*                                                                         *)
(* The agent (griptape Agent with output_schema=WordOutput) is external:   *)
(* a call of agent.run either raises, or returns after storing a value in  *)
(* agent.output.value.  That value is any instance of WordOutput (any      *)
(* well-typed one: the pydantic classes constrain field types only) or a   *)
(* value of another class.                                                 *)
(*                                                                         *)
(* Two specifications:                                                     *)
(*   Spec      the command-line program, one caller "main";                *)
(*   SpecConc  two callers of deconstruct_word sharing one Agent object.   *)
(***************************************************************************)
EXTENDS Integers, Sequences, FiniteSets, TLC

VARIABLES
    word,         \* per caller: the `word` argument (for main: args.word)
    verbose,      \* args.verbose
    pc,           \* per caller: position in the code
    prompt,       \* per caller: the local `prompt` of deconstruct_word
    result,       \* per caller: value returned by deconstruct_word (NoneVal before)
    exc,          \* per caller: exception raised in the caller ("none" if none)
    agentOutput,  \* agent.output.value of the shared Agent object
    outputOf,     \* the caller whose agent.run stored agentOutput ("nobody" before)
    resultOf,     \* per caller: the caller whose agent.run produced `result`
    calls,        \* number of agent.run invocations so far
    printed,      \* records handed to the logger, in order
    exitCode      \* process exit status (-1 while running)

vars == <<word, verbose, pc, prompt, result, exc, agentOutput, outputOf,
          resultOf, calls, printed, exitCode>>

----------------------------------------------------------------------------
(* Bounds of the model *)

\* number of ids written in one agent response: the ids of its WordParts and
\* Combinations and the entries of their sourceIds
MaxSize == 4
\* number of combination layers in one agent response
MaxLayers == 2
\* the attempt limits the attempt-count properties are stated for: 1..MaxAttempts
MaxAttempts == 2

Ids == {"a", "b"}
Words == {"", "unhappiness"}
\* argv without the -w option
Missing == "<no -w>"

SeqsUpTo(S, n) == UNION {[1..k -> S] : k \in 0..n}

----------------------------------------------------------------------------
(* Data model: lines 34-52 *)

NoneVal == [class |-> "NoneType"]

WordPart(i) ==
    [id |-> i, text |-> i, originalWord |-> "ow", origin |-> "Latin", meaning |-> "m"]

Combination(i, src) ==
    [id |-> i, text |-> i, definition |-> i, sourceIds |-> src]

WordOutput(p, c) ==
    [class |-> "WordOutput", thought |-> "t", parts |-> p, combinations |-> c]

WordPartValues == {WordPart(i) : i \in Ids}

\* the Combinations that write at most n ids (their own and their sourceIds)
CombinationValues(n) == {Combination(i, s) : i \in Ids, s \in SeqsUpTo(Ids, n - 1)}

RECURSIVE LayerSize(_)
LayerSize(l) ==
    IF l = <<>> THEN 0 ELSE 1 + Len(Head(l).sourceIds) + LayerSize(Tail(l))

\* the layers (lists of Combinations) that write at most n ids
RECURSIVE LayerValues(_)
LayerValues(n) ==
    {<<>>} \cup UNION {{<<c>> \o r : r \in LayerValues(n - 1 - Len(c.sourceIds))} :
                          c \in CombinationValues(n)}

\* the lists of exactly k layers that write at most n ids
RECURSIVE LayersOf(_, _)
LayersOf(k, n) ==
    IF k = 0 THEN {<<>>}
    ELSE UNION {{<<l>> \o r : r \in LayersOf(k - 1, n - LayerSize(l))} :
                    l \in LayerValues(n)}

CombinationLayers(n) == UNION {LayersOf(k, n) : k \in 0..MaxLayers}

\* every instance of WordOutput within the bounds
WordOutputs ==
    UNION {{WordOutput(p, c) : c \in CombinationLayers(MaxSize - Len(p))} :
              p \in SeqsUpTo(WordPartValues, MaxSize)}

\* values of agent.output.value that are not instances of WordOutput: an error
\* text, and a plain dict with the fields of a WordOutput
OtherOutputs ==
    {[class |-> "str", value |-> "error"],
     [class |-> "dict", thought |-> "t", parts |-> <<WordPart("a")>>,
      combinations |-> <<<<Combination("b", <<"a">>)>>>>]}

AgentOutputs == WordOutputs \cup OtherOutputs

\* the field (type and shape) constraints of the pydantic classes
IsWordPart(p) == DOMAIN p = {"id", "text", "originalWord", "origin", "meaning"}

IsCombination(c) ==
    /\ DOMAIN c = {"id", "text", "definition", "sourceIds"}
    /\ \A k \in 1..Len(c.sourceIds) : c.sourceIds[k] \in STRING

SchemaValid(v) ==
    /\ DOMAIN v = {"class", "thought", "parts", "combinations"}
    /\ \A k \in 1..Len(v.parts) : IsWordPart(v.parts[k])
    /\ \A i \in 1..Len(v.combinations) :
          \A j \in 1..Len(v.combinations[i]) : IsCombination(v.combinations[i][j])

----------------------------------------------------------------------------
(* deconstruct_word: lines 83-97 *)

\* lines 84-92; previous_attempts is <<>> when the argument is None or empty
BuildPrompt(w, previous_attempts) ==
    [text |-> <<"Your task is to deconstruct this EXACT word: ", w,
                "Do not analyze any other word. Focus only on ", w,
                "Break down ", w, " into its etymological components.">>,
     previous |-> IF previous_attempts # <<>> THEN previous_attempts ELSE <<>>,
     fix |-> previous_attempts # <<>>]

\* line 95
IsInstanceWordOutput(v) == v.class = "WordOutput"

\* lines 84-94, agent.run returns: the prompt is built (every caller of the
\* repository leaves previous_attempts unset), the agent is run once and stores
\* a value drawn from outs in agent.output.value
RunReturns(t, outs) ==
    /\ pc[t] = "call"
    /\ prompt' = [prompt EXCEPT ![t] = BuildPrompt(word[t], <<>>)]
    /\ calls' = calls + 1
    /\ \E v \in outs : agentOutput' = v
    /\ outputOf' = t
    /\ pc' = [pc EXCEPT ![t] = "check"]
    /\ UNCHANGED <<word, verbose, result, exc, resultOf, printed, exitCode>>

\* RunRaises with a retry: the exception of agent.run is caught, the agent is
\* run a second time and the exception of that run leaves deconstruct_word
RunRaisesRetry(t) ==
    /\ pc[t] = "call"
    /\ prompt' = [prompt EXCEPT ![t] = BuildPrompt(word[t], <<>>)]
    /\ calls' = calls + 2
    /\ exc' = [exc EXCEPT ![t] = "AgentError"]
    /\ pc' = [pc EXCEPT ![t] = "except"]
    /\ UNCHANGED <<word, verbose, result, agentOutput, outputOf, resultOf,
                   printed, exitCode>>

\* lines 84-94, agent.run raises: the exception leaves deconstruct_word
RunRaises(t) ==
    /\ pc[t] = "call"
    /\ prompt' = [prompt EXCEPT ![t] = BuildPrompt(word[t], <<>>)]
    /\ calls' = calls + 1
    /\ exc' = [exc EXCEPT ![t] = "AgentError"]
    /\ pc' = [pc EXCEPT ![t] = "except"]
    /\ UNCHANGED <<word, verbose, result, agentOutput, outputOf, resultOf,
                   printed, exitCode>>

\* CheckOutput with a retry loop: a value that is not a WordOutput sends the
\* caller back to agent.run
CheckOutputRetry(t) ==
    /\ pc[t] = "check"
    /\ IF IsInstanceWordOutput(agentOutput)
       THEN /\ result' = [result EXCEPT ![t] = agentOutput]
            /\ resultOf' = [resultOf EXCEPT ![t] = outputOf]
            /\ pc' = [pc EXCEPT ![t] = "returned"]
       ELSE /\ pc' = [pc EXCEPT ![t] = "call"]
            /\ UNCHANGED <<result, resultOf>>
    /\ UNCHANGED <<word, verbose, prompt, exc, agentOutput, outputOf, calls,
                   printed, exitCode>>

\* CheckOutput without the isinstance test: agent.output.value is returned
\* whatever its class
CheckOutputUnchecked(t) ==
    /\ pc[t] = "check"
    /\ result' = [result EXCEPT ![t] = agentOutput]
    /\ resultOf' = [resultOf EXCEPT ![t] = outputOf]
    /\ pc' = [pc EXCEPT ![t] = "returned"]
    /\ UNCHANGED <<word, verbose, prompt, exc, agentOutput, outputOf, calls,
                   printed, exitCode>>

\* lines 95-97: read agent.output.value, return it or raise ValueError
CheckOutput(t) ==
    /\ pc[t] = "check"
    /\ IF IsInstanceWordOutput(agentOutput)
       THEN /\ result' = [result EXCEPT ![t] = agentOutput]
            /\ resultOf' = [resultOf EXCEPT ![t] = outputOf]
            /\ pc' = [pc EXCEPT ![t] = "returned"]
            /\ exc' = exc
       ELSE /\ exc' = [exc EXCEPT ![t] = "ValueError"]
            /\ pc' = [pc EXCEPT ![t] = "except"]
            /\ UNCHANGED <<result, resultOf>>
    /\ UNCHANGED <<word, verbose, prompt, agentOutput, outputOf, calls,
                   printed, exitCode>>

----------------------------------------------------------------------------
(* __main__: lines 102-143 *)

\* result.model_dump(): the fields of the model as a dict
ModelDump(r) == [thought |-> r.thought, parts |-> r.parts, combinations |-> r.combinations]

\* line 138: the "text (meaning)" pairs that are joined with ", "
PartsLine(r) == [k \in 1..Len(r.parts) |-> <<r.parts[k].text, r.parts[k].meaning>>]

\* result.combinations[-1][0] is defined
HasFirstOfLast(r) ==
    /\ Len(r.combinations) > 0
    /\ Len(r.combinations[Len(r.combinations)]) > 0

\* line 141: the logged argument is a set literal holding the definition
DefinitionLine(r) == {r.combinations[Len(r.combinations)][1].definition}

\* lines 103-117: -w is required; argparse exits with status 2 without it
ParseArgs ==
    /\ "main" \in DOMAIN pc
    /\ pc["main"] = "parse"
    /\ IF word["main"] = Missing
       THEN /\ exitCode' = 2
            /\ pc' = [pc EXCEPT !["main"] = "done"]
       ELSE /\ exitCode' = exitCode
            /\ pc' = [pc EXCEPT !["main"] = "setup"]
    /\ UNCHANGED <<word, verbose, prompt, result, exc, agentOutput, outputOf,
                   resultOf, calls, printed>>

\* lines 120-129: enter the cloud structure context, create the agent
Setup ==
    /\ "main" \in DOMAIN pc
    /\ pc["main"] = "setup"
    /\ pc' = [pc EXCEPT !["main"] = "call"]
    /\ UNCHANGED <<word, verbose, prompt, result, exc, agentOutput, outputOf,
                   resultOf, calls, printed, exitCode>>

\* lines 134-141: log the result; the non-verbose branch raises IndexError at
\* line 141 when combinations[-1][0] does not exist. Without an exception the
\* try statement, the with block and the script end: exit status 0
Display ==
    /\ "main" \in DOMAIN pc
    /\ pc["main"] = "returned"
    /\ LET r == result["main"] IN
       IF verbose
       THEN /\ printed' = Append(printed, [line |-> "json", value |-> ModelDump(r)])
            /\ pc' = [pc EXCEPT !["main"] = "done"]
            /\ exc' = exc
            /\ exitCode' = 0
       ELSE LET two == printed \o <<[line |-> "Word", value |-> word["main"]],
                                    [line |-> "Parts", value |-> PartsLine(r)]>> IN
            IF HasFirstOfLast(r)
            THEN /\ printed' = Append(two, [line |-> "Definition",
                                            value |-> DefinitionLine(r)])
                 /\ pc' = [pc EXCEPT !["main"] = "done"]
                 /\ exc' = exc
                 /\ exitCode' = 0
            ELSE /\ printed' = two
                 /\ pc' = [pc EXCEPT !["main"] = "except"]
                 /\ exc' = [exc EXCEPT !["main"] = "IndexError"]
                 /\ exitCode' = exitCode
    /\ UNCHANGED <<word, verbose, prompt, result, agentOutput, outputOf,
                   resultOf, calls>>

\* lines 142-143: any Exception raised in the try block is logged and dropped;
\* the with block and the script then end normally: exit status 0
HandleException ==
    /\ "main" \in DOMAIN pc
    /\ pc["main"] = "except"
    /\ printed' = Append(printed, [line |-> "Error deconstructing word",
                                   value |-> exc["main"]])
    /\ pc' = [pc EXCEPT !["main"] = "done"]
    /\ exitCode' = 0
    /\ UNCHANGED <<word, verbose, prompt, result, exc, agentOutput, outputOf,
                   resultOf, calls>>

----------------------------------------------------------------------------
(* The command-line program *)

Init ==
    /\ word \in [{"main"} -> Words \cup {Missing}]
    /\ verbose \in BOOLEAN
    /\ pc = [t \in {"main"} |-> "parse"]
    /\ prompt = [t \in {"main"} |-> NoneVal]
    /\ result = [t \in {"main"} |-> NoneVal]
    /\ exc = [t \in {"main"} |-> "none"]
    /\ agentOutput = NoneVal
    /\ outputOf = "nobody"
    /\ resultOf = [t \in {"main"} |-> "nobody"]
    /\ calls = 0
    /\ printed = <<>>
    /\ exitCode = -1

Next ==
    \/ ParseArgs
    \/ Setup
    \/ RunReturns("main", AgentOutputs)
    \/ RunRaises("main")
    \/ CheckOutput("main")
    \/ Display
    \/ HandleException

Spec == Init /\ [][Next]_vars

----------------------------------------------------------------------------
(* Properties *)

\* the entities of a result: <<0, k>> is part k, <<i, j>> is Combination j of layer i
Entities(r) ==
    {<<0, k>> : k \in 1..Len(r.parts)} \cup
    UNION {{<<i, j>> : j \in 1..Len(r.combinations[i])} : i \in 1..Len(r.combinations)}

IdOf(r, e) == IF e[1] = 0 THEN r.parts[e[2]].id ELSE r.combinations[e[1]][e[2]].id

\* every sourceIds entry of a Combination of layer i names a part or a
\* Combination of a layer before i
IsDag(r) ==
    \A i \in 1..Len(r.combinations) : \A j \in 1..Len(r.combinations[i]) :
        \A k \in 1..Len(r.combinations[i][j].sourceIds) :
            \E e \in Entities(r) :
                /\ e[1] < i
                /\ IdOf(r, e) = r.combinations[i][j].sourceIds[k]

HasUniqueIds(r) ==
    \A e1, e2 \in Entities(r) : e1 # e2 => IdOf(r, e1) # IdOf(r, e2)

Returned(t) == result[t] # NoneVal

\* agent.run returned to main and the value it stored is not a WordOutput
ResponseFailed ==
    /\ outputOf = "main"
    /\ pc["main"] \notin {"call", "check"}
    /\ ~IsInstanceWordOutput(agentOutput)

\* agent.run was invoked by main and raised
RunFailed == calls > 0 /\ outputOf = "nobody" /\ pc["main"] # "call"

ResultLines == {"json", "Word", "Parts", "Definition"}

ResultPrinted == \E k \in 1..Len(printed) : printed[k].line \in ResultLines

ErrorLine(e) == [line |-> "Error deconstructing word", value |-> e]

\* C1: for every attempt limit m >= 1, a run of the command-line program
\* invokes agent.run at most m times, and when the m-th response is not a
\* WordOutput the run is in the terminal validation error (ValueError) with
\* nothing returned; as the number of invocations stays within the limit, no
\* call follows.
C1_BoundedAttempts ==
    \A m \in 1..MaxAttempts :
        /\ calls <= m
        /\ (calls = m /\ ResponseFailed) =>
              /\ exc["main"] = "ValueError"
              /\ pc["main"] \in {"except", "done"}
              /\ ~Returned("main")

C1_Witness ==
    /\ pc["main"] = "done"
    /\ ResponseFailed
    /\ calls = 1
    /\ exc["main"] = "ValueError"

\* C2: for every attempt limit m, a run does not end on a response that failed
\* validation while attempts remain (fewer than m invocations made): it
\* performs the next attempt, whose prompt holds the earlier failure.
C2_RetryWithFeedback ==
    \A m \in 1..MaxAttempts :
        (pc["main"] = "done" /\ ResponseFailed) =>
            /\ calls >= m
            /\ (calls > 1 => prompt["main"].fix)

\* C3: every result returned by deconstruct_word is a DAG: each sourceIds
\* entry of a Combination of layer i is the id of a part or of a Combination of
\* an earlier layer.
C3_DagInvariant == Returned("main") => IsDag(result["main"])

\* C4: in every result returned by deconstruct_word no two entities (parts
\* and Combinations of all layers) have the same id.
C4_IdUniqueness == Returned("main") => HasUniqueIds(result["main"])

C6_AllOrNothing ==
    /\ Returned("main") =>
          /\ IsInstanceWordOutput(result["main"])
          /\ SchemaValid(result["main"])
          /\ result["main"] = agentOutput
          /\ exc["main"] \in {"none", "IndexError"}
    /\ pc["main"] = "returned" => Returned("main")
    /\ exc["main"] \in {"ValueError", "AgentError"} => ~Returned("main")
    /\ ResultPrinted => Returned("main")

C6_Witness ==
    /\ pc["main"] = "done"
    /\ Returned("main")
    /\ \E k \in 1..Len(printed) : printed[k].line = "Definition"

\* C7: the process ends with status 0 exactly when a result was obtained and
\* displayed without an exception; every failed execution ends with a
\* non-zero status.
C7_ExitStatus ==
    exitCode # -1 =>
        (exitCode = 0 <=>
            (Returned("main") /\ ResultPrinted /\ exc["main"] = "none"))

\* C8: with an empty word the agent is never invoked.
C8_EmptyTargetRejected == word["main"] = "" => calls = 0

\* C9: every returned result has a non-empty combinations list whose last
\* layer is non-empty, so the display never raises on combinations[-1][0].
C9_DisplayDefined ==
    /\ Returned("main") => HasFirstOfLast(result["main"])
    /\ exc["main"] # "IndexError"

----------------------------------------------------------------------------
(* Two callers of deconstruct_word, for different words, on one Agent *)

Callers == {"t1", "t2"}

\* what the shared agent may store: two WordOutputs, one value of another class
ConcOutputs ==
    {WordOutput(<<WordPart("a")>>, <<<<Combination("b", <<"a">>)>>>>),
     WordOutput(<<WordPart("b")>>, <<<<Combination("a", <<"b">>)>>>>),
     [class |-> "str", value |-> "error"]}

InitConc ==
    /\ word \in {w \in [Callers -> Words] : w["t1"] # w["t2"]}
    /\ verbose = FALSE
    /\ pc = [t \in Callers |-> "call"]
    /\ prompt = [t \in Callers |-> NoneVal]
    /\ result = [t \in Callers |-> NoneVal]
    /\ exc = [t \in Callers |-> "none"]
    /\ agentOutput = NoneVal
    /\ outputOf = "nobody"
    /\ resultOf = [t \in Callers |-> "nobody"]
    /\ calls = 0
    /\ printed = <<>>
    /\ exitCode = -1

NextConc ==
    \E t \in Callers :
        \/ RunReturns(t, ConcOutputs)
        \/ RunRaises(t)
        \/ CheckOutput(t)

SpecConc == InitConc /\ [][NextConc]_vars

\* C10: of two callers sharing one Agent, each one that returns holds the value
\* stored by its own agent.run, under every interleaving.
C10_CallIsolation ==
    \A t \in Callers : pc[t] = "returned" => resultOf[t] = t

====
